---- MODULE Spec2Model ----
(***************************************************************************)
(* Model of mcq-tui.                                                       *)
(*                                                                         *)
(* Three parts of the repository are modelled here:                        *)
(*                                                                         *)
(*  - the session loop of mcq_tui.py (main, get_user_answer,               *)
(*    get_user_input_with_arrows), which owns the cursor current_idx and   *)
(*    the list of questions;                                               *)
(*  - the capture handlers of src/input_handlers.py                        *)
(*    (get_single_select_answer, get_multi_select_answer,                  *)
(*    get_yesno_answer), which own the answer state of one src.Question    *)
(*    and the raw/cooked mode of the terminal;                             *)
(*  - export_results_to_yaml of src/export.py, which writes the answers of *)
(*    a list of src.Question into the entries of the YAML file.            *)
(*                                                                         *)
(* main() of mcq_tui.py calls the get_user_answer of its own file and      *)
(* nothing in the repository calls export_results_to_yaml, so the three    *)
(* are separate state machines: Spec is the session, SpecCapture the       *)
(* capture handlers, SpecExport the export.  Four more specifications      *)
(* put them in other surroundings: SpecVanish is SpecCapture on a          *)
(* terminal device that can go away, SpecMany is SpecCapture for a         *)
(* question with more options than there are digits, SpecLoad is the       *)
(* export of questions that parse_yaml_questions of src/parser.py has      *)
(* loaded from the file, and SpecFrame is the program entered through      *)
(* either main or a capture handler.                                       *)
(***************************************************************************)
EXTENDS Integers, Sequences, FiniteSets, TLC

VARIABLES
    \* ---- session loop (mcq_tui.py) ----
    total,          \* len(questions), fixed at load
    questions,      \* the Question objects: user_answer, other_answer
    current_idx,    \* the zero-based cursor of main
    spc,            \* where main (or the function it is blocked in) stands
    result,         \* the line typed so far in get_user_input_with_arrows
    ret,            \* main's locals (user_answer, other_text, nav_command)
    screen,         \* what was rendered last
    exported,       \* number of calls of export_results_to_yaml so far
                    \* (mcq_tui.py never calls it: no action changes this)
    \* ---- capture handlers (src/input_handlers.py) ----
    question,       \* the src.Question the handler works on
    selected,       \* the local set `selected` of get_multi_select_answer
    hpc,            \* where the handler stands
    term,           \* mode of the terminal: "cooked" or "raw"
    old_settings,   \* the mode saved by termios.tcgetattr
    hret,           \* what the handler returned or raised last
    shown,          \* the answer state rendered by the last display_question
    toggled,        \* history: the in-range digits a Multi handler has read an
                    \* odd number of times for this question
    hints,          \* the navigation hints printed by the last redraw
    read_ch,        \* the handler's local `ch`: the first byte read in the
                    \* current pass of its loop
    device,         \* the terminal device: "present", or "vanished" (then
                    \* termios.tcsetattr and tcgetattr raise termios.error)
    \* ---- export (src/export.py) ----
    mem,            \* the list `questions` handed to export_results_to_yaml
    data,           \* the content of the YAML file at yaml_path
    now,            \* the clock read by datetime.now()
    export_ok,      \* what the last call of export_results_to_yaml returned
    exported_mem,   \* history: `questions` as it was at the last successful call
    repeated        \* history: the last call found `questions` as the call before
                    \* it had left them

svars == <<total, questions, current_idx, spc, result, ret, screen, exported>>
hvars == <<question, selected, hpc, term, old_settings, hret, shown, toggled, hints,
          read_ch, device>>
evars == <<mem, data, now, export_ok, exported_mem, repeated>>
vars == <<svars, hvars, evars>>

(***************************************************************************)
(* Bounds of the model.                                                    *)
(***************************************************************************)
MaxQuestions == 2   \* questions loaded: 1..MaxQuestions
NumOptions == 3     \* options of every question
MaxLine == 1        \* characters of a typed line that are kept
MaxTarget == 2      \* characters of a jump target
MaxRecords == 2     \* questions handed to an export, records of the file
ManyOptions == 10   \* options of a question with more options than digits
MaxClock == 2       \* readings of the clock, one for every export

(***************************************************************************)
(* Optional values: None is <<>>, a value v is <<v>>.                      *)
(***************************************************************************)
None == <<>>
Some(v) == <<v>>
IsNone(o) == o = <<>>
Val(o) == o[1]

(***************************************************************************)
(* Characters.  Digits are the strings "0".."9"; "CR" and "LF" are the two *)
(* Enter bytes, "DEL" is 0x7f, "ESC" is 0x1b, "ETX" is 0x03 (Ctrl-C).      *)
(***************************************************************************)
DigitChars == {"0", "1", "2", "3", "4", "5", "6", "7", "8", "9"}
DigitVal(c) ==
    CASE c = "0" -> 0 [] c = "1" -> 1 [] c = "2" -> 2 [] c = "3" -> 3
      [] c = "4" -> 4 [] c = "5" -> 5 [] c = "6" -> 6 [] c = "7" -> 7
      [] c = "8" -> 8 [] c = "9" -> 9

\* str.lower() on the characters of the model
LowerChar(c) ==
    CASE c = "Q" -> "q" [] c = "J" -> "j" [] c = "S" -> "s"
      [] c = "N" -> "n" [] c = "P" -> "p" [] c = "Y" -> "y" [] c = "O" -> "o"
      [] OTHER -> c
Lower(s) == [i \in 1..Len(s) |-> LowerChar(s[i])]

\* str.strip(): leading and trailing blanks removed
RECURSIVE LStrip(_)
LStrip(s) == IF s # <<>> /\ Head(s) = " " THEN LStrip(Tail(s)) ELSE s
RECURSIVE RStrip(_)
RStrip(s) ==
    IF s # <<>> /\ s[Len(s)] = " " THEN RStrip(SubSeq(s, 1, Len(s) - 1)) ELSE s
Strip(s) == RStrip(LStrip(s))

\* int(str): optional sign, then one or more digits; anything else raises
\* ValueError (ok = FALSE)
RECURSIVE DigitsValue(_)
DigitsValue(s) ==
    IF s = <<>> THEN 0
    ELSE 10 * DigitsValue(SubSeq(s, 1, Len(s) - 1)) + DigitVal(s[Len(s)])
AllDigits(s) == s # <<>> /\ \A i \in 1..Len(s) : s[i] \in DigitChars
ParseInt(str) ==
    LET s == Strip(str) IN
    IF AllDigits(s) THEN [ok |-> TRUE, val |-> DigitsValue(s)]
    ELSE IF s # <<>> /\ Head(s) = "-" /\ AllDigits(Tail(s))
         THEN [ok |-> TRUE, val |-> 0 - DigitsValue(Tail(s))]
    ELSE IF s # <<>> /\ Head(s) = "+" /\ AllDigits(Tail(s))
         THEN [ok |-> TRUE, val |-> DigitsValue(Tail(s))]
    ELSE [ok |-> FALSE, val |-> 0]

\* all sequences over S of length at most n
RECURSIVE SeqsUpTo(_, _)
SeqsUpTo(S, n) ==
    IF n = 0 THEN {<<>>}
    ELSE LET shorter == SeqsUpTo(S, n - 1)
         IN shorter \cup {Append(s, c) : s \in {t \in shorter : Len(t) = n - 1}, c \in S}

(***************************************************************************)
(*                    THE SESSION LOOP  (mcq_tui.py)                       *)
(***************************************************************************)

\* mcq_tui.Question.__init__: nothing answered
NewQuestion == [user_answer |-> None, other_answer |-> None]

\* len(questions[current_idx].options)
num_options(i) == NumOptions

\* the keys the model types at the answer prompt
LineChars ==
    {c \in DigitChars : DigitVal(c) <= NumOptions + 1}
        \cup {"n", "p", "j", "s", "q", "Q", "x", " "}
Keys == LineChars \cup {"CR", "LF", "DEL", "ESC", "ETX", "[", "A", "B", "C", "D"}

\* the texts typed at the "Other" prompt
OtherTexts == {<<>>, <<"a">>}

\* the strings typed at the jump prompt (the empty one selects the default)
TargetChars == {c \in DigitChars : DigitVal(c) <= MaxQuestions + 1} \cup {"x", "-", " "}
JumpTargets == SeqsUpTo(TargetChars, MaxTarget)

NavCommands == {<<"n">>, <<"p">>, <<"j">>, <<"s">>, <<"q">>}

NoRet == [user_answer |-> None, other_text |-> None, nav_command |-> None]
Nav(c) == [user_answer |-> None, other_text |-> None, nav_command |-> Some(c)]
Answer(n, t) == [user_answer |-> Some(n), other_text |-> t, nav_command |-> None]

QuestionView(n) == [view |-> "question", num |-> n]
SummaryView == [view |-> "summary", num |-> 0]

\* display_question(questions[current_idx], current_idx + 1, total), the
\* first statement of every iteration of main's loop
display_question(idx) == QuestionView(idx + 1)

InitSession ==
    /\ total \in 1..MaxQuestions
    /\ questions = [i \in 1..total |-> NewQuestion]
    /\ current_idx = 0
    /\ spc = "input"
    /\ result = <<>>
    /\ ret = NoRet
    /\ screen = display_question(0)
    /\ exported = 0

\* get_user_answer returns to main with the tuple r
ReturnToMain(r) ==
    /\ spc' = "dispatch"
    /\ ret' = r
    /\ result' = <<>>
    /\ UNCHANGED <<total, questions, current_idx, screen, exported>>

\* get_user_answer prints an error and prompts again (the `continue`s)
Reprompt ==
    /\ spc' = "input"
    /\ result' = <<>>
    /\ UNCHANGED <<total, questions, current_idx, ret, screen, exported>>

\* get_user_answer, from `choice` on: what it does with the value that
\* get_user_input_with_arrows returned.  Arrow names are one-element
\* sequences <<"RIGHT">>, <<"LEFT">>, <<"UP">>, <<"DOWN">>; Enter is <<"LF">>.
get_user_answer(choice) ==
    LET choice_str == Lower(Strip(choice))
        n == ParseInt(choice_str)
    IN  IF choice = <<"RIGHT">> \/ choice = <<"LF">> THEN ReturnToMain(Nav("n"))
        ELSE IF choice = <<"LEFT">> THEN ReturnToMain(Nav("p"))
        ELSE IF choice_str \in NavCommands THEN ReturnToMain(Nav(choice_str[1]))
        ELSE IF ~n.ok THEN Reprompt
        ELSE IF n.val < 0 \/ n.val > num_options(current_idx) THEN Reprompt
        ELSE IF n.val = 0
             THEN /\ spc' = "other"
                  /\ result' = <<>>
                  /\ UNCHANGED <<total, questions, current_idx, ret, screen, exported>>
        ELSE ReturnToMain(Answer(n.val, None))

\* get_user_input_with_arrows: the first byte
ReadFirst(ch) ==
    /\ spc = "input"
    /\ UNCHANGED <<hvars, evars>>
    /\ IF ch = "ESC"
       THEN /\ spc' = "esc1"
            /\ UNCHANGED <<total, questions, current_idx, result, ret, screen, exported>>
       ELSE IF ch \in {"CR", "LF"} THEN get_user_answer(<<"LF">>)
       ELSE IF ch = "DEL" THEN get_user_answer(<<"BS">>)
       ELSE /\ spc' = "line"
            /\ result' = <<ch>>
            /\ UNCHANGED <<total, questions, current_idx, ret, screen, exported>>

\* get_user_input_with_arrows: the byte after ESC
ReadEsc1(ch2) ==
    /\ spc = "esc1"
    /\ UNCHANGED <<hvars, evars>>
    /\ IF ch2 = "["
       THEN /\ spc' = "esc2"
            /\ UNCHANGED <<total, questions, current_idx, result, ret, screen, exported>>
       ELSE /\ spc' = "line"
            /\ result' = <<"ESC">>
            /\ UNCHANGED <<total, questions, current_idx, ret, screen, exported>>

\* get_user_input_with_arrows: the byte after ESC [
ReadEsc2(ch3) ==
    /\ spc = "esc2"
    /\ UNCHANGED <<hvars, evars>>
    /\ IF ch3 = "D" THEN get_user_answer(<<"LEFT">>)
       ELSE IF ch3 = "C" THEN get_user_answer(<<"RIGHT">>)
       ELSE IF ch3 = "A" THEN get_user_answer(<<"UP">>)
       ELSE IF ch3 = "B" THEN get_user_answer(<<"DOWN">>)
       ELSE /\ spc' = "line"
            /\ result' = <<"ESC">>
            /\ UNCHANGED <<total, questions, current_idx, ret, screen, exported>>

\* get_user_input_with_arrows: the rest of the line, one byte at a time
ReadLine(next_ch) ==
    /\ spc = "line"
    /\ UNCHANGED <<hvars, evars>>
    /\ IF next_ch \in {"CR", "LF"} THEN get_user_answer(result)
       ELSE IF next_ch = "DEL"
            THEN /\ result' = IF Len(result) > 0
                              THEN SubSeq(result, 1, Len(result) - 1)
                              ELSE result
                 /\ UNCHANGED <<total, questions, current_idx, spc, ret, screen, exported>>
       ELSE /\ Len(result) < MaxLine
            /\ result' = Append(result, next_ch)
            /\ UNCHANGED <<total, questions, current_idx, spc, ret, screen, exported>>

\* get_user_answer: Prompt.ask("Enter your answer (Other)") returns
OtherText(other_text) ==
    /\ spc = "other"
    /\ UNCHANGED <<hvars, evars>>
    /\ ReturnToMain(Answer(0, Some(other_text)))

\* str(n) for 0 <= n <= 99
DigitOf(n) == CHOOSE c \in DigitChars : DigitVal(c) = n
Str(n) == IF n < 10 THEN <<DigitOf(n)>> ELSE <<DigitOf(n \div 10), DigitOf(n % 10)>>

\* main: the top of the `while True` loop, reached by every `continue` and by
\* falling off the end of the body: display the question under the cursor and
\* block in get_user_answer
LoopTop(idx) ==
    /\ current_idx' = idx
    /\ screen' = display_question(idx)
    /\ spc' = "input"

\* main: `break`, then the "Press Enter to exit..." prompt
Break ==
    /\ spc' = "exit"
    /\ UNCHANGED current_idx

\* previous without the floor at the first question
previous_idx_no_floor(idx) == idx - 1

\* main, 'p': if current_idx > 0: current_idx -= 1
previous_idx(idx) == IF idx > 0 THEN idx - 1 ELSE idx

\* the comparison against total instead of total - 1
has_next_off_by_one(idx) == idx < total

\* main: if current_idx < total - 1 (there is a question after this one)
has_next(idx) == idx < total - 1

\* range checks of the jump target that are off by one at either end
valid_target_upto_total_plus_1(target_num) == 1 <= target_num /\ target_num <= total + 1
valid_target_from_0(target_num) == 0 <= target_num /\ target_num <= total

\* main, 'j': if 1 <= target_num <= total
valid_target(target_num) == 1 <= target_num /\ target_num <= total

\* main, the answer branch: the two assignments to the question under the cursor
record_answer(q, user_answer, other_text) ==
    [q EXCEPT !.user_answer = user_answer, !.other_answer = other_text]

\* main: everything from the return of get_user_answer to the next blocking
\* call (the branch on nav_command, then the branch on user_answer)
Dispatch ==
    /\ spc = "dispatch"
    /\ UNCHANGED <<hvars, evars>>
    /\ UNCHANGED <<total, result, ret, exported>>
    /\ IF ret.nav_command = Some("q")
       THEN /\ spc' = "quit"
            /\ UNCHANGED <<questions, current_idx, screen>>
       ELSE IF ret.nav_command = Some("s")
       THEN /\ screen' = SummaryView
            /\ spc' = "summary"
            /\ UNCHANGED <<questions, current_idx>>
       ELSE IF ret.nav_command = Some("j")
       THEN /\ spc' = "jump"
            /\ UNCHANGED <<questions, current_idx, screen>>
       ELSE IF ret.nav_command = Some("p")
       THEN /\ LoopTop(previous_idx(current_idx))
            /\ UNCHANGED questions
       ELSE IF ret.nav_command = Some("n")
       THEN /\ UNCHANGED questions
            /\ IF has_next(current_idx)
               THEN LoopTop(current_idx + 1)
               ELSE screen' = SummaryView /\ Break
       ELSE IF ret.user_answer # None
       THEN /\ questions' =
                [questions EXCEPT ![current_idx + 1] =
                    record_answer(@, ret.user_answer, ret.other_text)]
            /\ IF has_next(current_idx)
               THEN LoopTop(current_idx + 1)
               ELSE screen' = SummaryView /\ Break
       ELSE \* elif nav_command is None: treated as next
            /\ UNCHANGED questions
            /\ IF has_next(current_idx)
               THEN LoopTop(current_idx + 1)
               ELSE screen' = SummaryView /\ Break

\* a declined quit that starts the quiz over with the answers cleared
QuitAnswer_declined_clears(yes) ==
    /\ spc = "quit"
    /\ UNCHANGED <<hvars, evars>>
    /\ UNCHANGED <<total, result, ret, exported>>
    /\ IF yes
       THEN Break /\ UNCHANGED <<screen, questions>>
       ELSE /\ LoopTop(current_idx)
            /\ questions' = [i \in 1..total |-> NewQuestion]

\* main, 'q': Confirm.ask("Quit quiz?") returns
QuitAnswer(yes) ==
    /\ spc = "quit"
    /\ UNCHANGED <<hvars, evars>>
    /\ UNCHANGED <<total, questions, result, ret, exported>>
    /\ IF yes
       THEN Break /\ UNCHANGED screen
       ELSE LoopTop(current_idx)

\* main, 's': Confirm.ask("Return to questions?") returns
SummaryAnswer(back) ==
    /\ spc = "summary"
    /\ UNCHANGED <<hvars, evars>>
    /\ UNCHANGED <<total, questions, result, ret, exported>>
    /\ IF ~back
       THEN Break /\ UNCHANGED screen
       ELSE LoopTop(current_idx)

\* main, 'j': Prompt.ask("Jump to question", default=str(current_idx + 1))
\* returns `typed`, or the default when nothing was typed
JumpAnswer(typed) ==
    /\ spc = "jump"
    /\ UNCHANGED <<hvars, evars>>
    /\ UNCHANGED <<total, questions, result, ret, exported>>
    /\ LET target == IF typed = <<>> THEN Str(current_idx + 1) ELSE typed
           target_num == ParseInt(target)
       IN  IF target_num.ok /\ valid_target(target_num.val)
           THEN LoopTop(target_num.val - 1)
           ELSE \* error message, then input("Press Enter to continue...")
                /\ spc' = "jumpErr"
                /\ UNCHANGED <<current_idx, screen>>

\* main, 'j': the input() after an error message returns, then `continue`
JumpErrEnter ==
    /\ spc = "jumpErr"
    /\ UNCHANGED <<hvars, evars>>
    /\ UNCHANGED <<total, questions, result, ret, exported>>
    /\ LoopTop(current_idx)

\* an exit prompt that goes back to the answer prompt
ExitEnter_rereads ==
    /\ spc = "exit"
    /\ UNCHANGED <<hvars, evars>>
    /\ spc' = "input"
    /\ UNCHANGED <<total, questions, current_idx, result, ret, screen, exported>>

\* main: the input() after "Press Enter to exit..." returns; main returns
ExitEnter ==
    /\ spc = "exit"
    /\ UNCHANGED <<hvars, evars>>
    /\ spc' = "done"
    /\ UNCHANGED <<total, questions, current_idx, result, ret, screen, exported>>

\* Ctrl-C while main is blocked in a line-buffered prompt (Prompt.ask,
\* Confirm.ask, input): KeyboardInterrupt is raised there and nothing in
\* mcq_tui.py catches it, so the process ends with a traceback.  (While the
\* terminal is raw, Ctrl-C is an ordinary byte: see ReadFirst and ReadLine.)
Interrupt ==
    /\ spc \in {"other", "quit", "summary", "jump", "jumpErr", "exit"}
    /\ UNCHANGED <<hvars, evars>>
    /\ spc' = "aborted"
    /\ UNCHANGED <<total, questions, current_idx, result, ret, screen, exported>>

(***************************************************************************)
(*               THE CAPTURE HANDLERS  (src/input_handlers.py)             *)
(***************************************************************************)

\* src.Question.__init__: the answer fields of a new question, and
\* len(options)
Question(question_type) ==
    [question_type |-> question_type, user_answer |-> None,
     user_answers |-> <<>>, other_answer |-> None, num_options |-> NumOptions]

QuestionTypes == {"single", "multi", "yesno"}

\* len(question.options), for the question the handler was called for
len_options == question.num_options

\* Question.is_answered
is_answered(q) ==
    IF q.question_type = "multi" THEN Len(q.user_answers) > 0
    ELSE IF q.question_type = "yesno"
         THEN q.user_answer # None \/ q.other_answer # None
    ELSE q.user_answer # None

\* the keys the model presses while a handler reads
HandlerKeys ==
    {c \in DigitChars : DigitVal(c) <= NumOptions + 2}
        \cup {"q", "j", "s", "y", "n", "o", "Y", "N", "O", "x", "sup2",
              "CR", "LF", "ESC", "ETX", "[", "A", "C", "D"}

\* str.isdigit(): the decimal digits, and characters such as the superscript
\* two ("sup2"), for which isdigit() is True and int() raises ValueError
isdigit(ch) == ch \in DigitChars \cup {"sup2"}

\* the texts typed at the "Other" prompt of a handler
HandlerTexts == {<<>>, <<"a">>, <<" ", "a">>, <<"b">>}

NoReturn == [answer |-> None, nav |-> None, raised |-> "nothing"]
ReturnAnswer(answer_data) == [answer |-> Some(answer_data), nav |-> None, raised |-> "nothing"]
ReturnNav(c) == [answer |-> None, nav |-> Some(c), raised |-> "nothing"]
Raised(exc) == [answer |-> None, nav |-> None, raised |-> exc]

\* sorted(selected): the members of a set of integers in increasing order
RECURSIVE sorted(_)
sorted(S) ==
    IF S = {} THEN <<>>
    ELSE LET m == CHOOSE x \in S : \A y \in S : x <= y
         IN <<m>> \o sorted(S \ {m})

\* set(question.user_answers)
set(seq) == {seq[i] : i \in 1..Len(seq)}

\* ",".join([str(n) for n in nums])
RECURSIVE join(_)
join(nums) ==
    IF nums = <<>> THEN <<>>
    ELSE IF Len(nums) = 1 THEN Str(nums[1])
    ELSE Str(nums[1]) \o <<",">> \o join(Tail(nums))

\* f"{other_answer}": the text, or "None" when there is none
fmt(other_answer) ==
    IF other_answer = None THEN <<"N", "o", "n", "e">> ELSE Val(other_answer)

\* termios.tcsetattr and termios.tcgetattr raise termios.error: the device
\* behind the file descriptor is gone
termios_error == device = "vanished"

\* termios.tcsetattr(fd, termios.TCSADRAIN, saved): the mode of the terminal
\* after the call; a call that raises changes nothing
tcsetattr(saved) == IF termios_error THEN term ELSE saved

\* a branch that forgets its explicit restore
restore_forgotten == term

\* the explicit termios.tcsetattr(fd, TCSADRAIN, old_settings) that every
\* branch of a handler makes before it returns, raises, continues or prompts
restore == tcsetattr(old_settings)

\* the `finally:` clause of a handler, run when control leaves the `try`
\* block in mode `mode`
finally(mode) == tcsetattr(old_settings)

\* display_question(question, question_num, total): what it renders of q
rendered(q) ==
    Some([user_answer |-> q.user_answer, user_answers |-> q.user_answers,
          other_answer |-> q.other_answer])

InitCapture ==
    /\ question \in {Question(t) : t \in QuestionTypes}
    /\ selected = {}
    /\ hpc = "idle"
    /\ term = "cooked"
    /\ old_settings = "cooked"
    /\ hret = NoReturn
    /\ shown = None
    /\ toggled = {}
    /\ hints = <<>>
    /\ read_ch = None
    /\ device = "present"

\* a handler is about to be called for a Single or Multi question with
\* ManyOptions options
InitMany ==
    /\ question \in {[Question(t) EXCEPT !.num_options = ManyOptions] :
                         t \in {"single", "multi"}}
    /\ selected = {}
    /\ hpc = "idle"
    /\ term = "cooked"
    /\ old_settings = "cooked"
    /\ hret = NoReturn
    /\ shown = None
    /\ toggled = {}
    /\ hints = <<>>
    /\ read_ch = None
    /\ device = "present"

\* the keys pressed at such a question: every digit, and the keys of
\* HandlerKeys
ManyKeys == HandlerKeys \cup DigitChars

\* get_user_answer(question, question_num, total): dispatch on the type; the
\* multi handler initialises `selected` from question.user_answers
Call ==
    /\ hpc = "idle"
    /\ hpc' = "draw"
    /\ selected' = IF question.question_type = "multi"
                   THEN set(question.user_answers) ELSE selected
    /\ hret' = NoReturn
    /\ read_ch' = None
    /\ UNCHANGED <<question, term, old_settings, shown, toggled, hints, device>>
    /\ UNCHANGED <<svars, evars>>

\* hints that offer 'next' on the last question too
format_navigation_hints_next_at_last(question_num, total_) ==
    (IF question_num > 1 THEN <<"previous">> ELSE <<>>)
        \o (IF question_num <= total_ THEN <<"next">> ELSE <<>>)
        \o <<"jump", "summary", "quit">>

\* navigation.format_navigation_hints, and the same lines inlined in each
\* handler: the hints in the order they are printed, for question number
\* question_num of total_
format_navigation_hints(question_num, total_) ==
    (IF question_num > 1 THEN <<"previous">> ELSE <<>>)
        \o (IF question_num < total_ THEN <<"next">> ELSE <<>>)
        \o <<"jump", "summary", "quit">>

\* a loop top that goes to the read without display_question
Draw_without_display ==
    /\ hpc = "draw"
    /\ old_settings' = term
    /\ term' = "raw"
    /\ hpc' = "read"
    /\ hints' = format_navigation_hints(current_idx + 1, total)
    /\ UNCHANGED <<question, selected, hret, toggled, shown, read_ch, device>>
    /\ UNCHANGED <<svars, evars>>

\* the top of a handler's `while True`: display_question, the hints,
\* tcgetattr, tty.setraw, and the handler blocks in sys.stdin.read(1).
\* tcgetattr is called before the `try`: a termios.error it raises leaves
\* the handler at once
Draw ==
    /\ hpc = "draw"
    /\ shown' = rendered(question)
    /\ hints' = format_navigation_hints(current_idx + 1, total)
    /\ IF termios_error
       THEN /\ hpc' = "raised"
            /\ hret' = Raised("termios.error")
            /\ UNCHANGED <<old_settings, term>>
       ELSE /\ old_settings' = term
            /\ term' = "raw"
            /\ hpc' = "read"
            /\ UNCHANGED hret
    /\ UNCHANGED <<question, selected, toggled, read_ch, device>>
    /\ UNCHANGED <<svars, evars>>

\* an exception exc leaves the `try` block in mode `mode`: the matching
\* `except` clause (KeyboardInterrupt, or Exception) restores the terminal
\* and re-raises, and `finally` runs on the way out.  The tcsetattr of
\* `except Exception` and of `finally` is inside try/except-pass; the one of
\* `except KeyboardInterrupt` is not, so a termios.error it raises is what
\* leaves the handler
Raise(exc, mode) ==
    /\ hpc' = "raised"
    /\ hret' = Raised(IF exc = "KeyboardInterrupt" /\ termios_error
                      THEN "termios.error" ELSE exc)
    /\ term' = finally(tcsetattr(old_settings))
    /\ UNCHANGED <<question, selected, old_settings, shown>>

\* a handler returns r: the branch has made its explicit tcsetattr (a
\* termios.error it raises leaves the `try` block instead of the return),
\* and the `finally` clause runs on the way out
Return(r, mode) ==
    IF termios_error THEN Raise("termios.error", term)
    ELSE /\ hpc' = "idle"
         /\ hret' = r
         /\ term' = finally(mode)
         /\ UNCHANGED <<question, selected, old_settings, shown>>

\* `continue` (or the end of the `try` block) with the question now q and the
\* selection now sel: `finally` runs, the loop starts over
Continue(q, sel, mode) ==
    /\ hpc' = "draw"
    /\ question' = q
    /\ selected' = sel
    /\ term' = finally(mode)
    /\ UNCHANGED <<old_settings, hret, shown>>

\* a handler that stores the 'Other' sentinel before it asks for the text
Prompt_sets_sentinel(where, q, sel) ==
    /\ hpc' = where
    /\ question' = IF where = "other"
                   THEN [q EXCEPT !.user_answer =
                            IF q.question_type = "yesno" THEN Some(3) ELSE Some(0)]
                   ELSE q
    /\ selected' = sel
    /\ term' = restore
    /\ UNCHANGED <<old_settings, hret, shown>>

\* a handler starts a line-buffered prompt inside the `try` block, after the
\* branch's explicit restore
Prompt(where, q, sel) ==
    /\ hpc' = where
    /\ question' = q
    /\ selected' = sel
    /\ term' = restore
    /\ UNCHANGED <<old_settings, hret, shown>>

\* the answer a Single handler returns on Enter or Right, None if nothing is set
single_answer(q) ==
    IF q.user_answer # None
    THEN IF q.user_answer = Some(0)
         THEN Some(<<"0", ":">> \o fmt(q.other_answer))
         ELSE Some(Str(Val(q.user_answer)))
    ELSE None

\* a Multi handler that returns the joined selection even when it is empty
multi_answer_never_skips(sel) == Some(join(sorted(sel)))

\* the answer the Multi handler returns on Enter or Right, None if nothing is
\* selected
multi_answer(sel) == IF sel # {} THEN Some(join(sorted(sel))) ELSE None

\* the answer the YesNo handler returns on Enter or Right, None if nothing is set
yesno_answer(q) ==
    IF q.user_answer = Some(1) THEN Some(<<"1">>)
    ELSE IF q.user_answer = Some(2) THEN Some(<<"2">>)
    ELSE IF (q.other_answer # None /\ Val(q.other_answer) # <<>>)
            \/ q.user_answer = Some(3)
         THEN Some(<<"3", ":">> \o fmt(q.other_answer))
    ELSE None

\* the answer the handler of q's type returns on Enter or Right
current_answer(q, sel) ==
    IF q.question_type = "multi" THEN multi_answer(sel)
    ELSE IF q.question_type = "yesno" THEN yesno_answer(q)
    ELSE single_answer(q)

\* Enter: the answer if there is one, else 'n'
Confirm(mode) ==
    LET a == current_answer(question, selected)
    IN IF a # None THEN Return(ReturnAnswer(Val(a)), mode)
       ELSE Return(ReturnNav("n"), mode)

\* a Single handler that keeps the free text when an option is chosen
SingleDigit_keeps_text(num) ==
    IF num < 0 \/ num > len_options
    THEN Prompt("invalid", question, selected)
    ELSE IF num = 0
    THEN Prompt("other", question, selected)
    ELSE Continue([question EXCEPT !.user_answer = Some(num)], selected, restore)

\* a Single handler without the range check
SingleDigit_accepts_any(num) ==
    IF num = 0
    THEN Prompt("other", question, selected)
    ELSE Continue([question EXCEPT !.user_answer = Some(num),
                                   !.other_answer = None],
                  selected, restore)

\* a Right that always navigates, whatever is selected
Right_always_next(mode) == Return(ReturnNav("n"), mode)

\* Right (ESC [ C): the branch of each handler that follows the explicit
\* restore: the answer if there is one, else 'n'
Right(mode) ==
    LET a == current_answer(question, selected)
    IN IF a # None THEN Return(ReturnAnswer(Val(a)), mode)
       ELSE Return(ReturnNav("n"), mode)

\* get_single_select_answer: `elif ch.isdigit()`; the explicit tcsetattr
\* comes right after int(ch)
SingleDigit(num) ==
    IF termios_error THEN Raise("termios.error", term)
    ELSE IF num < 0 \/ num > len_options
    THEN Prompt("invalid", question, selected)
    ELSE IF num = 0
    THEN Prompt("other", question, selected)
    ELSE Continue([question EXCEPT !.user_answer = Some(num),
                                   !.other_answer = None],
                  selected, restore)

\* a toggle that only ever adds
toggle_add_only(sel, num) == sel \cup {num}

\* get_multi_select_answer: selected.remove(num) if num is in selected,
\* selected.add(num) otherwise
toggle(sel, num) == IF num \in sel THEN sel \ {num} ELSE sel \cup {num}

\* a Multi handler that toggles whatever digit it reads
MultiDigit_accepts_any(num) ==
    LET sel == toggle(selected, num)
    IN Continue([question EXCEPT !.user_answers = sorted(sel)], sel, restore)

\* get_multi_select_answer: `elif ch.isdigit()`; for a digit in range the
\* explicit tcsetattr comes after the selection has been toggled
MultiDigit(num) ==
    IF 1 <= num /\ num <= len_options
    THEN LET sel == toggle(selected, num)
         IN IF termios_error
            THEN /\ hpc' = "raised"
                 /\ hret' = Raised("termios.error")
                 /\ question' = [question EXCEPT !.user_answers = sorted(sel)]
                 /\ selected' = sel
                 /\ term' = finally(term)
                 /\ UNCHANGED <<old_settings, shown>>
            ELSE Continue([question EXCEPT !.user_answers = sorted(sel)], sel, restore)
    ELSE IF termios_error THEN Raise("termios.error", term)
    ELSE Prompt("invalid", question, selected)

\* a YesNo handler that keeps the free text when Yes or No is chosen
YesNoKey_keeps_text(ch) ==
    IF ch \in {"1", "y", "Y"}
    THEN Continue([question EXCEPT !.user_answer = Some(1)], selected, restore)
    ELSE IF ch \in {"2", "n", "N"}
    THEN Continue([question EXCEPT !.user_answer = Some(2)], selected, restore)
    ELSE IF ch \in {"3", "o", "O"}
    THEN Prompt("other", question, selected)
    ELSE Continue(question, selected, restore)

\* get_yesno_answer: the branches for 1/y/Y, 2/n/N, 3/o/O and the final
\* else; each starts with its explicit tcsetattr
YesNoKey(ch) ==
    IF termios_error THEN Raise("termios.error", term)
    ELSE IF ch \in {"1", "y", "Y"}
    THEN Continue([question EXCEPT !.user_answer = Some(1), !.other_answer = None],
                  selected, restore)
    ELSE IF ch \in {"2", "n", "N"}
    THEN Continue([question EXCEPT !.user_answer = Some(2), !.other_answer = None],
                  selected, restore)
    ELSE IF ch \in {"3", "o", "O"}
    THEN Prompt("other", question, selected)
    ELSE Continue(question, selected, restore)

\* a handler's sys.stdin.read(1) returns ch: the whole `try` block up to the
\* next blocking call
Key(ch) ==
    /\ hpc = "read"
    /\ UNCHANGED <<svars, evars, hints, device>>
    /\ read_ch' = Some(ch)
    /\ toggled' = IF question.question_type = "multi" /\ ch \in DigitChars
                       /\ DigitVal(ch) \in 1..len_options
                   THEN (toggled \ {DigitVal(ch)}) \cup ({DigitVal(ch)} \ toggled)
                   ELSE toggled
    /\ IF ch = "ETX" THEN Raise("KeyboardInterrupt", restore)
       ELSE IF ch = "ESC"
       THEN /\ hpc' = "esc1"
            /\ UNCHANGED <<question, selected, term, old_settings, hret, shown>>
       ELSE IF ch \in {"CR", "LF"} THEN Confirm(restore)
       ELSE IF ch \in {"q", "j", "s"} THEN Return(ReturnNav(ch), restore)
       ELSE IF question.question_type = "yesno" THEN YesNoKey(ch)
       ELSE IF isdigit(ch)
       THEN IF ch \notin DigitChars
            THEN Raise("ValueError", term)     \* num = int(ch) raises
            ELSE IF question.question_type = "multi"
            THEN MultiDigit(DigitVal(ch))
            ELSE SingleDigit(DigitVal(ch))
       ELSE IF termios_error THEN Raise("termios.error", term)
       ELSE Continue(question, selected, restore)

\* a handler that takes ESC followed by an unknown byte for 'next'
Esc1_unknown_is_next(ch2) ==
    /\ hpc = "esc1"
    /\ UNCHANGED <<svars, evars, toggled, hints, read_ch, device>>
    /\ IF ch2 = "["
       THEN /\ hpc' = "esc2"
            /\ UNCHANGED <<question, selected, term, old_settings, hret, shown>>
       ELSE Return(ReturnNav("n"), term)

\* the read after ESC returns ch2
Esc1(ch2) ==
    /\ hpc = "esc1"
    /\ UNCHANGED <<svars, evars, toggled, hints, read_ch, device>>
    /\ IF ch2 = "["
       THEN /\ hpc' = "esc2"
            /\ UNCHANGED <<question, selected, term, old_settings, hret, shown>>
       ELSE Continue(question, selected, term)

\* a Left that throws the pending selection away
Esc2_left_discards(ch3) ==
    /\ hpc = "esc2"
    /\ UNCHANGED <<svars, evars, toggled, hints, read_ch, device>>
    /\ IF ch3 = "D"
       THEN /\ hpc' = "idle"
            /\ hret' = ReturnNav("p")
            /\ term' = finally(restore)
            /\ question' = Question(question.question_type)
            /\ UNCHANGED <<selected, old_settings, shown>>
       ELSE IF ch3 = "C" THEN Right(restore)
       ELSE Continue(question, selected, term)

\* the read after ESC [ returns ch3
Esc2(ch3) ==
    /\ hpc = "esc2"
    /\ UNCHANGED <<svars, evars, toggled, hints, read_ch, device>>
    /\ IF ch3 = "D" THEN Return(ReturnNav("p"), restore)
       ELSE IF ch3 = "C" THEN Right(restore)
       ELSE Continue(question, selected, term)

\* Prompt.ask("Enter your answer (Other)") returns other_text
HandlerOtherText(other_text) ==
    /\ hpc = "other"
    /\ UNCHANGED <<svars, evars, toggled, hints, read_ch, device>>
    /\ Continue([question EXCEPT
                    !.user_answer =
                        IF question.question_type = "yesno" THEN Some(3) ELSE Some(0),
                    !.other_answer = Some(Strip(other_text))],
                selected, term)

\* the input() after "Invalid choice" returns, then `continue`
InvalidEnter ==
    /\ hpc = "invalid"
    /\ UNCHANGED <<svars, evars, toggled, hints, read_ch, device>>
    /\ Continue(question, selected, term)

\* the terminal device goes away while a handler is blocked in a key read
\* or in a line-buffered prompt; bytes already queued are still read
Vanish ==
    /\ hpc \in {"read", "esc1", "esc2", "other", "invalid"}
    /\ device = "present"
    /\ device' = "vanished"
    /\ UNCHANGED <<question, selected, hpc, term, old_settings, hret, shown,
                   toggled, hints, read_ch>>
    /\ UNCHANGED <<svars, evars>>

\* Ctrl-C while the handler is blocked in a line-buffered prompt inside the
\* `try` block: KeyboardInterrupt is raised there
PromptInterrupt ==
    /\ hpc \in {"other", "invalid"}
    /\ UNCHANGED <<svars, evars, toggled, hints, read_ch, device>>
    /\ Raise("KeyboardInterrupt", term)

(***************************************************************************)
(*      FORMATTING AND EXPORT OF AN ANSWER  (answer_formatting, export)    *)
(***************************************************************************)

\* question.options: the option strings of a question, in order
OptionNames == <<"A", "B", "C", "D", "E", "F", "G", "H", "I", "J", "K", "L">>
options == [i \in 1..len_options |-> OptionNames[i]]

\* list[i] with Python's indexing: zero-based, negative i counts from the end
py_index(list, i) == IF i >= 0 THEN list[i + 1] ELSE list[Len(list) + i + 1]

\* sorted(list): the elements of a list of integers in increasing order,
\* duplicates kept
RECURSIVE sorted_list(_)
sorted_list(list) ==
    IF list = <<>> THEN <<>>
    ELSE LET i == CHOOSE i \in 1..Len(list) : \A j \in 1..Len(list) : list[i] <= list[j]
             rest == [j \in 1..(Len(list) - 1) |-> IF j < i THEN list[j] ELSE list[j + 1]]
         IN <<list[i]>> \o sorted_list(rest)

\* the truth value of `question.other_answer` in a condition
truthy(other_answer) == other_answer # None /\ Val(other_answer) # <<>>

\* answer_formatting.format_multi_answer
format_multi_answer(q) ==
    IF q.user_answers # <<>> THEN Some(join(sorted_list(q.user_answers))) ELSE None

\* export._format_answer_for_yaml: the value written under `answer`, None for
\* null; a YAML string s is the record [scalar |-> s]
format_answer_for_yaml(q) ==
    IF q.question_type = "multi"
    THEN IF q.user_answers # <<>>
         THEN LET idx == sorted_list(q.user_answers)
              IN Some([selected_indices |-> idx,
                       selected_options |->
                           [i \in 1..Len(idx) |-> py_index(options, idx[i] - 1)]])
         ELSE None
    ELSE IF q.question_type = "yesno"
    THEN IF q.user_answer = Some(1) THEN Some([scalar |-> "Yes"])
         ELSE IF q.user_answer = Some(2) THEN Some([scalar |-> "No"])
         ELSE IF q.user_answer = Some(3) /\ truthy(q.other_answer)
              THEN Some([type |-> "Other", value |-> Val(q.other_answer)])
         ELSE None
    ELSE IF q.user_answer = Some(0) /\ truthy(q.other_answer)
         THEN Some([type |-> "Other", value |-> Val(q.other_answer)])
         ELSE IF q.user_answer # None
              THEN Some([index |-> Val(q.user_answer),
                         option |-> py_index(options, Val(q.user_answer) - 1)])
         ELSE None

\* [i for i in sorted(user_answers) if 1 <= i <= len(options)]
RECURSIVE valid_indices(_)
valid_indices(list) ==
    IF list = <<>> THEN <<>>
    ELSE (IF 1 <= Head(list) /\ Head(list) <= len_options
          THEN <<Head(list)>> ELSE <<>>) \o valid_indices(Tail(list))

\* Question.get_answer_dict()["answer"]: None for null; a string s is the
\* record [scalar |-> s]
get_answer_dict(q) ==
    IF q.question_type = "multi"
    THEN IF q.user_answers # <<>>
         THEN LET idx == valid_indices(sorted_list(q.user_answers))
              IN IF idx # <<>>
                 THEN Some([selected_indices |-> idx,
                            selected_options |->
                                [i \in 1..Len(idx) |-> py_index(options, idx[i] - 1)]])
                 ELSE None
         ELSE None
    ELSE IF q.question_type = "yesno"
    THEN IF q.user_answer = Some(1) THEN Some([scalar |-> "Yes"])
         ELSE IF q.user_answer = Some(2) THEN Some([scalar |-> "No"])
         ELSE IF q.user_answer = Some(3) /\ truthy(q.other_answer)
              THEN Some([type |-> "Other", value |-> Val(q.other_answer)])
         ELSE None
    ELSE IF q.user_answer = Some(0) /\ truthy(q.other_answer)
         THEN Some([type |-> "Other", value |-> Val(q.other_answer)])
         ELSE IF q.user_answer # None /\ 1 <= Val(q.user_answer)
                 /\ Val(q.user_answer) <= len_options
              THEN Some([index |-> Val(q.user_answer),
                         option |-> py_index(options, Val(q.user_answer) - 1)])
         ELSE None

(***************************************************************************)
(*                 EXPORT TO THE YAML FILE  (src/export.py)                *)
(***************************************************************************)

\* the values of an `id` key
Ids == {"a"}

\* lists of n optional ids in which no id occurs twice
IdLists(n) ==
    {l \in [1..n -> {None} \cup {Some(x) : x \in Ids}] :
        \A i, j \in 1..n : (i # j /\ l[i] # None) => l[i] # l[j]}

\* a src.Question as export sees it: its question_id and its answer fields
MemQuestion(id, t) == [question_id |-> id, q |-> Question(t)]

\* an entry of data['questions']: its `id` key and its `answer` key, None
\* where the key is absent
Record(id) == [id |-> id, answer |-> None]

\* the answer states in which the handlers can leave a question that they
\* were called for: Single and YesNo keep an answer once one is set, Multi
\* can be toggled back to the empty selection
AnswerStates(t) ==
    IF t = "multi"
    THEN {[Question(t) EXCEPT !.user_answers = l] : l \in {<<>>, <<1>>, <<1, 2>>}}
    ELSE IF t = "yesno"
    THEN {[Question(t) EXCEPT !.user_answer = Some(1)],
          [Question(t) EXCEPT !.user_answer = Some(3), !.other_answer = Some(<<"a">>)]}
    ELSE {[Question(t) EXCEPT !.user_answer = Some(1)],
          [Question(t) EXCEPT !.user_answer = Some(0), !.other_answer = Some(<<"a">>)]}

\* question_by_id.get(str(question_id)): the index in qs of the question
\* stored under that id (the last one, were there several), None if none
question_by_id(qs, id) ==
    LET S == {i \in 1..Len(qs) : qs[i].question_id = Some(id)}
    IN IF S = {} THEN None ELSE Some(CHOOSE i \in S : \A j \in S : j <= i)

\* export_results_to_yaml, the loop body up to `if question is not None`: the
\* index in qs of the question matched with entry q_data at position idx
\* (zero-based), None if none
matched(qs, idx, q_data) ==
    LET by_id == IF q_data.id # None THEN question_by_id(qs, Val(q_data.id))
                 ELSE None
    IN IF by_id # None THEN by_id
       ELSE IF idx < Len(qs) THEN Some(idx + 1)
       ELSE None

\* export_results_to_yaml, the loop body: entry q_data after the iteration
updated(qs, idx, q_data) ==
    LET m == matched(qs, idx, q_data)
    IN IF m = None THEN q_data
       ELSE LET answer == format_answer_for_yaml(qs[Val(m)].q)
            IN IF answer # None THEN [q_data EXCEPT !.answer = answer]
               ELSE q_data

\* a count that takes every question for answered
answered_count_all(qs) == Len(qs)

\* sum(1 for q in questions if q.is_answered())
answered_count(qs) == Cardinality({i \in 1..Len(qs) : is_answered(qs[i].q)})

\* a metadata block that adds the new count to the one it finds
metadata_accumulating(d, qs, t) ==
    Some([last_answered |-> t,
          answered_count |->
              answered_count(qs)
                  + (IF d.metadata = None THEN 0 ELSE Val(d.metadata).answered_count),
          total_questions |-> Len(qs)])

\* data['metadata'] after the three assignments, written at time t
metadata(d, qs, t) ==
    Some([last_answered |-> t,
          answered_count |-> answered_count(qs),
          total_questions |-> Len(qs)])

InitExport ==
    /\ \E n \in 1..MaxRecords : \E ids \in IdLists(n) : \E t \in QuestionTypes :
           mem = [i \in 1..n |-> MemQuestion(ids[i], t)]
    /\ \E n \in 1..MaxRecords : \E ids \in IdLists(n) : \E ok \in BOOLEAN :
           data = [has_questions |-> ok,
                   questions |-> IF ok THEN [i \in 1..n |-> Record(ids[i])] ELSE <<>>,
                   metadata |-> None]
    /\ now = 0
    /\ export_ok = None
    /\ exported_mem = None
    /\ repeated = FALSE

\* an entry of data['questions'] in a file that is loaded: its `id`, `type`
\* and `question` keys, whether it has a non-empty `options` key, and its
\* `answer` key
SourceRecord(id, t, text, has_options) ==
    [id |-> id, answer |-> None, type |-> t, question |-> text,
     has_options |-> has_options]

\* parse_yaml_questions: the entry is kept: it has a question text and, unless
\* it is a yesno, options
kept(q_data) ==
    /\ Strip(q_data.question) # <<>>
    /\ (q_data.type = "yesno" \/ q_data.has_options)

\* Question(question_text, options, question_type): the parser passes no
\* question_id, so the id of the entry is not kept
Loaded(q_data) ==
    [question_id |-> None, q |-> Question(q_data.type),
     question_text |-> Strip(q_data.question)]

\* parse_yaml_questions: the loop over data['questions']
RECURSIVE load(_)
load(records) ==
    IF records = <<>> THEN <<>>
    ELSE (IF kept(Head(records)) THEN <<Loaded(Head(records))>> ELSE <<>>)
             \o load(Tail(records))

\* parse_yaml_questions(file_path), for a file with content d
parse_yaml_questions(d) == IF d.has_questions THEN load(d.questions) ELSE <<>>

\* a file with up to MaxRecords entries of one type, each with a text of its
\* own or none, has been loaded
InitLoad ==
    /\ \E n \in 1..MaxRecords : \E ids \in IdLists(n) : \E t \in QuestionTypes :
       \E with_text \in SUBSET (1..n) : \E with_options \in SUBSET (1..n) :
           data = [has_questions |-> TRUE,
                   questions |->
                       [i \in 1..n |->
                           SourceRecord(ids[i], t,
                                        IF i \in with_text THEN Str(i) ELSE <<>>,
                                        i \in with_options)],
                   metadata |-> None]
    /\ mem = parse_yaml_questions(data)
    /\ now = 0
    /\ export_ok = None
    /\ exported_mem = None
    /\ repeated = FALSE

\* the handlers change the answer state of questions[i] to a
SetAnswer(i, a) ==
    /\ i \in 1..Len(mem)
    /\ a \in AnswerStates(mem[i].q.question_type)
    /\ a # mem[i].q
    /\ mem' = [mem EXCEPT ![i].q = a]
    /\ UNCHANGED <<data, now, export_ok, exported_mem, repeated>>
    /\ UNCHANGED <<svars, hvars>>

\* export_results_to_yaml(questions, yaml_path), the whole call: read the
\* file, give up if it has no 'questions' key, update the entries, write the
\* metadata block and write the file back
ExportResults ==
    /\ now < MaxClock
    /\ now' = now + 1
    /\ IF ~data.has_questions
       THEN /\ export_ok' = Some(FALSE)
            /\ UNCHANGED <<data, exported_mem>>
       ELSE /\ data' = [data EXCEPT
                           !.questions = [j \in 1..Len(@) |-> updated(mem, j - 1, @[j])],
                           !.metadata = metadata(data, mem, now')]
            /\ export_ok' = Some(TRUE)
            /\ exported_mem' = Some(mem)
    /\ repeated' = (exported_mem = Some(mem))
    /\ UNCHANGED mem
    /\ UNCHANGED <<svars, hvars>>

\* the export's variables while no export is under way
IdleExport ==
    /\ mem = <<>>
    /\ data = [has_questions |-> TRUE, questions |-> <<>>, metadata |-> None]
    /\ now = 0
    /\ export_ok = None
    /\ exported_mem = None
    /\ repeated = FALSE

\* the capture handlers' variables while main of mcq_tui.py runs: it calls
\* none of them (hpc = "off")
IdleCapture ==
    /\ question = Question("single")
    /\ selected = {}
    /\ hpc = "off"
    /\ term = "cooked"
    /\ old_settings = "cooked"
    /\ hret = NoReturn
    /\ shown = None
    /\ toggled = {}
    /\ hints = <<>>
    /\ read_ch = None
    /\ device = "present"

Init == InitSession /\ IdleCapture /\ IdleExport
Next ==
    \/ \E ch \in Keys : ReadFirst(ch)
    \/ \E ch \in Keys : ReadEsc1(ch)
    \/ \E ch \in Keys : ReadEsc2(ch)
    \/ \E ch \in Keys : ReadLine(ch)
    \/ \E t \in OtherTexts : OtherText(t)
    \/ Dispatch
    \/ \E b \in BOOLEAN : QuitAnswer(b)
    \/ \E b \in BOOLEAN : SummaryAnswer(b)
    \/ \E t \in JumpTargets : JumpAnswer(t)
    \/ JumpErrEnter
    \/ ExitEnter
    \/ Interrupt
Spec == Init /\ [][Next]_vars


\* the session's variables while a handler is called for the question under
\* the cursor: the handler is passed question_num = current_idx + 1 and
\* total, and main is not running (spc = "off")
IdleSession ==
    /\ total \in 1..MaxQuestions
    /\ questions = [i \in 1..total |-> NewQuestion]
    /\ current_idx \in 0..(total - 1)
    /\ spc = "off"
    /\ result = <<>>
    /\ ret = NoRet
    /\ screen = display_question(current_idx)
    /\ exported = 0

NextCapture ==
    \/ Call
    \/ Draw
    \/ \E ch \in HandlerKeys : Key(ch)
    \/ \E ch \in HandlerKeys : Esc1(ch)
    \/ \E ch \in HandlerKeys : Esc2(ch)
    \/ \E t \in HandlerTexts : HandlerOtherText(t)
    \/ InvalidEnter
    \/ PromptInterrupt
CaptureInit == InitCapture /\ IdleSession /\ IdleExport
SpecCapture == CaptureInit /\ [][NextCapture]_vars

\* the capture handlers on a terminal device that can go away
NextVanish ==
    \/ Call
    \/ Draw
    \/ \E ch \in HandlerKeys : Key(ch)
    \/ \E ch \in HandlerKeys : Esc1(ch)
    \/ \E ch \in HandlerKeys : Esc2(ch)
    \/ \E t \in HandlerTexts : HandlerOtherText(t)
    \/ InvalidEnter
    \/ PromptInterrupt
    \/ Vanish
VanishInit == InitCapture /\ IdleSession /\ IdleExport
SpecVanish == VanishInit /\ [][NextVanish]_vars

\* the capture handlers called for a question with ManyOptions options
NextMany ==
    \/ Call
    \/ Draw
    \/ \E ch \in ManyKeys : Key(ch)
    \/ \E ch \in ManyKeys : Esc1(ch)
    \/ \E ch \in ManyKeys : Esc2(ch)
    \/ \E t \in HandlerTexts : HandlerOtherText(t)
    \/ InvalidEnter
    \/ PromptInterrupt
ManyInit == InitMany /\ IdleSession /\ IdleExport /\ total = 1
SpecMany == ManyInit /\ [][NextMany]_vars

\* the program entered through either of its two entry points: main of
\* mcq_tui.py, or get_user_answer of the package called for one question
NextFrame ==
    \/ \E ch \in Keys : ReadFirst(ch)
    \/ \E ch \in Keys : ReadEsc1(ch)
    \/ \E ch \in Keys : ReadEsc2(ch)
    \/ \E ch \in Keys : ReadLine(ch)
    \/ \E t \in OtherTexts : OtherText(t)
    \/ Dispatch
    \/ \E b \in BOOLEAN : QuitAnswer(b)
    \/ \E b \in BOOLEAN : SummaryAnswer(b)
    \/ \E t \in JumpTargets : JumpAnswer(t)
    \/ JumpErrEnter
    \/ ExitEnter
    \/ Interrupt
    \/ Call
    \/ Draw
    \/ \E ch \in HandlerKeys : Key(ch)
    \/ \E ch \in HandlerKeys : Esc1(ch)
    \/ \E ch \in HandlerKeys : Esc2(ch)
    \/ \E t \in HandlerTexts : HandlerOtherText(t)
    \/ InvalidEnter
    \/ PromptInterrupt
FrameInit ==
    \/ InitSession /\ IdleCapture /\ IdleExport
    \/ InitCapture /\ IdleSession /\ IdleExport
SpecFrame == FrameInit /\ [][NextFrame]_vars

NextExport ==
    \/ \E i \in 1..MaxRecords : \E t \in QuestionTypes : \E a \in AnswerStates(t) :
           SetAnswer(i, a)
    \/ ExportResults
ExportInit == InitExport /\ IdleCapture /\ IdleSession /\ total = 1
SpecExport == ExportInit /\ [][NextExport]_vars

\* parse_yaml_questions, then answers are set and the file is exported
NextLoad ==
    \/ \E i \in 1..MaxRecords : \E t \in QuestionTypes : \E a \in AnswerStates(t) :
           SetAnswer(i, a)
    \/ ExportResults
LoadInit == InitLoad /\ IdleCapture /\ IdleSession /\ total = 1
SpecLoad == LoadInit /\ [][NextLoad]_vars

(***************************************************************************)
(*                              THE CLAIMS                                 *)
(***************************************************************************)

\* the session loop has exited (break, or the process is gone)
Terminated == spc \in {"exit", "done", "aborted"}

\* C1: in every capture handler the terminal is raw only while the handler
\* is blocked in a key read (first byte or inside an escape sequence); it is
\* back in the mode it had before whenever the handler has returned, has
\* raised, is about to redraw, or is in a line-buffered sub-prompt.
C1_RawOnlyDuringKeyRead ==
    /\ hpc \in {"idle", "raised", "draw", "other", "invalid"} => term = "cooked"
    /\ hpc \in {"read", "esc1", "esc2"} => term = "raw" /\ old_settings = "cooked"
C1_Witness ==
    /\ hpc = "other"
    /\ question.question_type = "yesno"
    /\ question.user_answer = Some(2)
    /\ term = "cooked"

\* C2 (as claimed): a question becomes answered (is_answered) only in a step
\* in which the handler returns an answer, that is on Confirm; and a step
\* that changes the answer state never makes the handler return.
C2_AnsweredOnlyOnConfirm ==
    [][ /\ (~is_answered(question) /\ is_answered(question'))
            => (hpc' = "idle" /\ hret'.answer # None)
        /\ (hpc = "read" /\ question' # question) => hpc' # "idle" ]_vars

\* C3: the cursor always satisfies 0 <= current_idx < len(questions).
C3_CursorInRange == 0 <= current_idx /\ current_idx < total
C3_Witness ==
    /\ total = MaxQuestions
    /\ current_idx = total - 1
    /\ ret.nav_command = Some("j")
    /\ spc = "input"

\* C4 (as claimed): a confirmed answer at cursor < last moves the cursor
\* forward by exactly one and displays that question; at cursor = last it
\* exports the results once and ends the session.
C4_ConfirmedAnswer ==
    [][ (spc = "dispatch" /\ ret.user_answer # None) =>
            IF current_idx < total - 1
            THEN /\ current_idx' = current_idx + 1
                 /\ screen' = QuestionView(current_idx + 2)
                 /\ spc' = "input"
            ELSE /\ exported' = exported + 1
                 /\ spc' = "exit" ]_vars

\* C5 (as claimed): a skip forward (Confirm or Right with nothing selected)
\* records no answer; at cursor < last it moves the cursor forward by one, at
\* the last question it exports and ends the session.
C5_SkipForward ==
    [][ (spc = "dispatch" /\ ret.nav_command = Some("n")) =>
            /\ questions' = questions
            /\ IF current_idx < total - 1
               THEN current_idx' = current_idx + 1 /\ spc' = "input"
               ELSE exported' = exported + 1 /\ spc' = "exit" ]_vars

\* C6 (as claimed): previous at the first question and next at the last
\* question are no-ops, the session keeps running with the cursor unchanged;
\* previous at cursor > 0 moves the cursor back by one.
C6_EdgesAreNoOps ==
    [][ /\ (spc = "dispatch" /\ ret.nav_command = Some("p")) =>
               /\ current_idx' = (IF current_idx > 0 THEN current_idx - 1 ELSE 0)
               /\ spc' = "input"
        /\ (spc = "dispatch" /\ ret.nav_command = Some("n")
                /\ current_idx = total - 1) =>
               /\ current_idx' = current_idx
               /\ spc' = "input" ]_vars

\* C6 (amended): previous at the first question is a no-op, the session keeps
\* running with the cursor unchanged; previous at cursor > 0 moves the cursor
\* back by one; next at the last question leaves the cursor unchanged, shows
\* the summary and ends the session.
C6_PreviousFloorsNextEnds ==
    [][ /\ (spc = "dispatch" /\ ret.nav_command = Some("p")) =>
               /\ current_idx' = (IF current_idx > 0 THEN current_idx - 1 ELSE 0)
               /\ spc' = "input"
               /\ screen' = QuestionView(current_idx' + 1)
               /\ questions' = questions
        /\ (spc = "dispatch" /\ ret.nav_command = Some("n")
                /\ current_idx = total - 1) =>
               /\ current_idx' = current_idx
               /\ spc' = "exit"
               /\ screen' = SummaryView
               /\ questions' = questions ]_vars
C6_Witness ==
    /\ spc = "exit"
    /\ ret.nav_command = Some("n")
    /\ current_idx = total - 1
    /\ total > 1
    /\ screen = SummaryView

\* C7 (as claimed): Confirm with no selection pending is a no-op other than
\* rendering: no answer is recorded and the cursor does not change.
C7_EmptyConfirmIsNoOp ==
    [][ /\ (spc = "input" /\ spc' = "dispatch" /\ ret'.nav_command = Some("n")) =>
            /\ questions' = questions
            /\ current_idx' = current_idx
        /\ (spc = "dispatch" /\ ret.nav_command = Some("n")) =>
            /\ questions' = questions
            /\ current_idx' = current_idx ]_vars

\* C7 (amended): Confirm with no selection pending never records an answer
\* and never moves the cursor past the last question: every question's answer
\* state is unchanged, and the cursor moves forward by one when there is a
\* next question and otherwise stays where it is (the session ends).
C7_EmptyConfirmSkipsForward ==
    [][ /\ (spc = "input" /\ spc' = "dispatch" /\ ret'.nav_command = Some("n")) =>
            /\ questions' = questions
            /\ current_idx' = current_idx
        /\ (spc = "dispatch" /\ ret.nav_command = Some("n")) =>
            /\ questions' = questions
            /\ current_idx' < total
            /\ current_idx' = (IF current_idx < total - 1
                               THEN current_idx + 1 ELSE current_idx)
            /\ (current_idx = total - 1 => spc' = "exit") ]_vars
C7_Witness ==
    /\ ret.nav_command = Some("n")
    /\ spc = "input"
    /\ current_idx = 1
    /\ \A i \in 1..total : questions[i].user_answer = None

\* C8: a jump target t in 1..total sets the cursor to t - 1 (t = total lands
\* on the last question); the targets 0, total + 1 and a non-numeric string
\* are rejected with an error report, and the cursor and every question's
\* answer state stay as they were.
C8_Targets == {Str(t) : t \in 0..(total + 1)} \cup {<<"x">>, <<"-", "1">>}
C8_Jump ==
    [][ (spc = "jump") => \A typed \in C8_Targets : JumpAnswer(typed) =>
            ( /\ \A t \in 1..total : (typed = Str(t)) =>
                     ( /\ current_idx' = t - 1
                       /\ spc' = "input"
                       /\ questions' = questions )
              /\ (typed \in {Str(0), Str(total + 1), <<"x">>, <<"-", "1">>}) =>
                     ( /\ spc' = "jumpErr"
                       /\ current_idx' = current_idx
                       /\ questions' = questions ) ) ]_vars
C8_Witness ==
    /\ spc = "jumpErr"
    /\ current_idx = 1
    /\ questions[1].user_answer = Some(2)

\* C9 (as claimed): quit asks for confirmation; confirmed, the session
\* exports and then ends; declined, the session resumes at the same question
\* with the cursor and every answer unchanged.
C9_Quit ==
    [][ /\ (spc = "dispatch" /\ ret.nav_command = Some("q")) =>
               (spc' = "quit" /\ current_idx' = current_idx /\ questions' = questions)
        /\ \A yes \in BOOLEAN : QuitAnswer(yes) =>
               IF yes
               THEN exported' = exported + 1 /\ spc' = "exit"
               ELSE /\ spc' = "input"
                    /\ current_idx' = current_idx
                    /\ questions' = questions
                    /\ screen' = QuestionView(current_idx + 1) ]_vars

\* C10 (as claimed): summary renders the summary and asks whether to return;
\* returning displays the same question again with the cursor unchanged,
\* declining exports and ends the session as a confirmed quit does.
C10_Summary ==
    [][ /\ (spc = "dispatch" /\ ret.nav_command = Some("s")) =>
               (spc' = "summary" /\ screen' = SummaryView
                    /\ current_idx' = current_idx /\ questions' = questions)
        /\ \A back \in BOOLEAN : SummaryAnswer(back) =>
               IF back
               THEN /\ spc' = "input"
                    /\ current_idx' = current_idx
                    /\ questions' = questions
                    /\ screen' = QuestionView(current_idx + 1)
               ELSE exported' = exported + 1 /\ spc' = "exit" ]_vars

\* C11 (as claimed): a Cancel (Ctrl-C) at any point the session honours it is
\* not fatal: the step offers the export and the session ends cleanly; the
\* process never ends by an unhandled KeyboardInterrupt.
C11_CancelIsHandled ==
    [][ /\ Interrupt => (exported' = exported + 1 /\ spc' \in {"exit", "done"})
        /\ spc' # "aborted" ]_vars

C13_ExportedExactlyOnce ==
    /\ exported <= 1
    /\ (Terminated /\ \E i \in 1..total : questions[i].user_answer # None)
           => exported = 1

\* what display_question rendered of an answer state
Rendering(user_answer, user_answers, other_answer) ==
    Some([user_answer |-> user_answer, user_answers |-> user_answers,
          other_answer |-> other_answer])

\* C14 (as claimed): for a Single question, after Digit(0) and free text t
\* the question is answered and stores exactly (0, t); a following digit of
\* an option clears the free text.
C14_OtherStoresTextAsTyped ==
    [][ question.question_type = "single" =>
            /\ \A t \in HandlerTexts : HandlerOtherText(t) =>
                   /\ is_answered(question')
                   /\ question'.user_answer = Some(0)
                   /\ question'.other_answer = Some(t)
            /\ \A k \in 1..len_options : (hpc = "read" /\ Key(DigitOf(k))) =>
                   /\ question'.user_answer = Some(k)
                   /\ question'.other_answer = None ]_vars

\* C14 (amended): for a Single question, after Digit(0) and free text t the
\* question is answered and stores (0, t stripped of leading and trailing
\* blanks); a following digit of an option (1..len(options)) stores that
\* option and clears the free text, and a digit above len(options) leaves
\* both as they were.
C14_OtherStoresStrippedText ==
    [][ question.question_type = "single" =>
            /\ \A t \in HandlerTexts : HandlerOtherText(t) =>
                   /\ is_answered(question')
                   /\ question'.user_answer = Some(0)
                   /\ question'.other_answer = Some(Strip(t))
                   /\ (t = <<" ", "a">> => question'.other_answer = Some(<<"a">>))
            /\ \A k \in 1..len_options : (hpc = "read" /\ Key(DigitOf(k))) =>
                   /\ question'.user_answer = Some(k)
                   /\ question'.other_answer = None
            /\ \A k \in (len_options + 1)..(len_options + 2) :
                   (hpc = "read" /\ Key(DigitOf(k))) => question' = question ]_vars
C14_Witness ==
    /\ question.question_type = "single"
    /\ hpc = "draw"
    /\ shown = Rendering(Some(0), <<>>, Some(<<"a">>))
    /\ question.user_answer = Some(1)
    /\ question.other_answer = None

\* C15: other_answer is set only together with the sentinel of the variant
\* (0 for Single, 3 for YesNo), so an option other than "other" never keeps
\* a free text; a Multi question carries neither a free text nor an index.
C15_OtherOnlyWithSentinel ==
    /\ question.other_answer # None =>
           \/ question.question_type = "single" /\ question.user_answer = Some(0)
           \/ question.question_type = "yesno" /\ question.user_answer = Some(3)
    /\ question.question_type = "multi" =>
           question.other_answer = None /\ question.user_answer = None
C15_Witness ==
    /\ question.question_type = "yesno"
    /\ hpc = "draw"
    /\ shown = Rendering(Some(3), <<>>, Some(<<"a">>))
    /\ question.user_answer = Some(2)
    /\ question.other_answer = None

\* C16: every stored index is within 1..len(options) or is the sentinel of
\* the variant (0 for Single, 3 for YesNo), and a Multi question's
\* user_answers is a strictly increasing list of indices in 1..len(options).
C16_IndicesInRange ==
    /\ question.question_type = "single" =>
           question.user_answer = None \/ Val(question.user_answer) \in 0..len_options
    /\ question.question_type = "yesno" =>
           question.user_answer = None \/ Val(question.user_answer) \in {1, 2, 3}
    /\ \A i \in 1..Len(question.user_answers) :
           /\ question.user_answers[i] \in 1..len_options
           /\ i > 1 => question.user_answers[i - 1] < question.user_answers[i]
    /\ selected \subseteq 1..len_options
    /\ question.question_type # "multi" => question.user_answers = <<>>
C16_Witness ==
    /\ question.question_type = "multi"
    /\ hpc = "draw"
    /\ shown = Rendering(None, <<3>>, None)
    /\ question.user_answers = <<1, 3>>

\* seq lists the members of S once each, in increasing order
IsSortedSetOf(seq, S) ==
    /\ Len(seq) = Cardinality(S)
    /\ set(seq) = S
    /\ \A i \in 1..Len(seq) : i > 1 => seq[i - 1] < seq[i]

\* C17: for a Multi question and every index k in range, reading Digit(k)
\* toggles k, so that reading it again gives the selection back; the stored
\* list and the formatted answer are the selected indices in increasing
\* order, each once, whatever the order of the toggles.
C17_ToggleIsInvolution ==
    [][ (hpc = "read" /\ question.question_type = "multi") =>
            \A k \in 1..len_options : Key(DigitOf(k)) =>
                /\ (k \in selected') = (k \notin selected)
                /\ selected' \ {k} = selected \ {k}
                /\ toggle(selected', k) = selected
                /\ IsSortedSetOf(question'.user_answers, selected')
                /\ format_multi_answer(question') =
                       (IF selected' = {} THEN None
                        ELSE Some(join(question'.user_answers))) ]_vars
C17_Witness ==
    /\ question.question_type = "multi"
    /\ hpc = "draw"
    /\ shown = Rendering(None, <<1, 3>>, None)
    /\ question.user_answers = <<1>>
    /\ selected = {1}

\* a Multi handler's Confirm: Enter, or Right
MultiConfirm ==
    /\ question.question_type = "multi"
    /\ \/ hpc = "read" /\ \E ch \in {"CR", "LF"} : Key(ch)
       \/ Esc2("C")

\* C18: for a Multi question, Confirm returns the indices read an odd number
\* of times, in increasing order and joined by commas, when there is one,
\* and otherwise returns 'n' with no answer; the value exported for the
\* question is then selected_indices = that list with selected_options the
\* option strings at those indices, and null for the empty selection.
C18_MultiConfirmEmitsOddToggles ==
    [][ MultiConfirm =>
            IF toggled = {}
            THEN /\ hret' = ReturnNav("n")
                 /\ format_answer_for_yaml(question') = None
            ELSE \E seq \in SeqsUpTo(1..len_options, len_options) :
                 /\ IsSortedSetOf(seq, toggled)
                 /\ hret' = ReturnAnswer(join(seq))
                 /\ format_answer_for_yaml(question') =
                        Some([selected_indices |-> seq,
                              selected_options |->
                                  [i \in 1..Len(seq) |-> OptionNames[seq[i]]]]) ]_vars
C18_Witness ==
    /\ question.question_type = "multi"
    /\ hpc = "idle"
    /\ hret = ReturnAnswer(<<"1">>)
    /\ toggled = {1}
    /\ format_answer_for_yaml(question) =
           Some([selected_indices |-> <<1>>, selected_options |-> <<"A">>])

\* a digit that is no choice of question q: above len(options) for Single and
\* Multi, 0 for Multi, anything but 1, 2, 3 for YesNo
OutOfRange(q, ch) ==
    /\ ch \in DigitChars
    /\ IF q.question_type = "single" THEN DigitVal(ch) > len_options
       ELSE IF q.question_type = "multi"
            THEN DigitVal(ch) = 0 \/ DigitVal(ch) > len_options
       ELSE DigitVal(ch) \notin {1, 2, 3}

\* C19: a digit out of range changes neither the answer state of the
\* question nor the cursor and makes the handler neither return nor raise;
\* the handler stays on the question and, after the Enter of the error
\* prompt where there is one, draws it and reads again.
C19_OutOfRangeDigitRejected ==
    [][ /\ hpc = "read" =>
               \A ch \in HandlerKeys : (OutOfRange(question, ch) /\ Key(ch)) =>
                   /\ question' = question
                   /\ selected' = selected
                   /\ current_idx' = current_idx
                   /\ hret' = NoReturn
                   /\ hpc' \in {"invalid", "draw"}
        /\ InvalidEnter =>
               /\ question' = question
               /\ selected' = selected
               /\ hret' = NoReturn
               /\ hpc' = "draw" ]_vars
C19_Witness ==
    /\ hpc = "invalid"
    /\ question.question_type = "multi"
    /\ question.user_answers = <<2>>
    /\ shown = Rendering(None, <<2>>, None)

\* C20: in every variant and every selection state Left makes the handler
\* return 'p' with no answer and leaves the selection stored in the question;
\* when the question is displayed again the handler starts from that
\* selection and renders it.
C20_LeftKeepsSelection ==
    [][ /\ Esc2("D") =>
               /\ hret' = ReturnNav("p")
               /\ hpc' = "idle"
               /\ question' = question
        /\ Call =>
               /\ question' = question
               /\ question.question_type = "multi" =>
                      selected' = set(question.user_answers)
        /\ Draw =>
               /\ question' = question
               /\ shown' = Rendering(question.user_answer, question.user_answers,
                                     question.other_answer) ]_vars
C20_Witness ==
    /\ hpc = "idle"
    /\ hret = ReturnNav("p")
    /\ question.question_type = "yesno"
    /\ question.user_answer = Some(3)
    /\ question.other_answer = Some(<<"a">>)

\* what Enter returns in the answer state (q, sel): the answer of the variant
\* if one is set, else 'n'
EnterOutcome(q, sel) ==
    IF q.question_type = "multi"
    THEN IF sel # {} THEN ReturnAnswer(join(sorted(sel))) ELSE ReturnNav("n")
    ELSE IF q.question_type = "yesno"
    THEN IF q.user_answer = Some(1) THEN ReturnAnswer(<<"1">>)
         ELSE IF q.user_answer = Some(2) THEN ReturnAnswer(<<"2">>)
         ELSE IF truthy(q.other_answer) \/ q.user_answer = Some(3)
              THEN ReturnAnswer(<<"3", ":">> \o fmt(q.other_answer))
         ELSE ReturnNav("n")
    ELSE IF q.user_answer = None THEN ReturnNav("n")
         ELSE IF q.user_answer = Some(0)
              THEN ReturnAnswer(<<"0", ":">> \o fmt(q.other_answer))
         ELSE ReturnAnswer(Str(Val(q.user_answer)))

\* C21: in every variant and every selection state Right returns what Enter
\* returns in that state: the same answer when the question is answered, and
\* otherwise 'n' with no answer; neither changes the question.
C21_RightIsConfirm ==
    [][ /\ Esc2("C") =>
               /\ hret' = EnterOutcome(question, selected)
               /\ (hret'.answer # None) = is_answered(question)
               /\ (hret'.answer = None) => hret' = ReturnNav("n")
               /\ question' = question
               /\ hpc' = "idle"
        /\ (hpc = "read" /\ \E ch \in {"CR", "LF"} : Key(ch)) =>
               /\ hret' = EnterOutcome(question, selected)
               /\ question' = question
               /\ hpc' = "idle" ]_vars
C21_Witness ==
    /\ hpc = "idle"
    /\ question.question_type = "single"
    /\ question.user_answer = Some(0)
    /\ question.other_answer = Some(<<"b">>)
    /\ hret = ReturnAnswer(<<"0", ":", "b">>)

\* C22: whenever a handler is blocked in a key read, the question was
\* rendered in its current answer state: every change of the answer state is
\* followed by display_question before the next key is read.
C22_RenderedBeforeRead ==
    hpc \in {"read", "esc1", "esc2"} =>
        shown = Rendering(question.user_answer, question.user_answers,
                          question.other_answer)
C22_Witness ==
    /\ hpc = "read"
    /\ question.question_type = "multi"
    /\ question.user_answers = <<2, 3>>
    /\ shown = Rendering(None, <<2, 3>>, None)

\* C23: for question number n of total, the hints printed with the question
\* hold 'previous' exactly when n > 1 and 'next' exactly when n < total, and
\* always hold jump, summary and quit.
C23_NavigationHints ==
    /\ \A n \in 1..total :
           LET h == set(format_navigation_hints(n, total))
           IN /\ ("previous" \in h) = (n > 1)
              /\ ("next" \in h) = (n < total)
              /\ {"jump", "summary", "quit"} \subseteq h
    /\ hints # <<>> =>
           /\ ("previous" \in set(hints)) = (current_idx + 1 > 1)
           /\ ("next" \in set(hints)) = (current_idx + 1 < total)
           /\ {"jump", "summary", "quit"} \subseteq set(hints)
C23_Witness ==
    /\ hpc = "read"
    /\ total = MaxQuestions
    /\ current_idx = total - 1
    /\ hints = <<"previous", "jump", "summary", "quit">>

\* C24 (as claimed): for a Single question in any answer state the handlers
\* reach, the exported answer is null when nothing is chosen, {type: Other,
\* value: text} for the choice 0, and {index: i, option: options[i]} with
\* 1 <= i <= N for option i; an exported index is never 0 or out of range.
C24_SingleExport ==
    question.question_type = "single" =>
        LET e == format_answer_for_yaml(question)
            ua == question.user_answer
        IN /\ ua = None => e = None
           /\ ua = Some(0) =>
                  /\ e # None
                  /\ DOMAIN Val(e) = {"type", "value"}
                  /\ Val(e).type = "Other"
                  /\ Val(e).value = Val(question.other_answer)
           /\ (ua # None /\ ua # Some(0)) =>
                  /\ e # None
                  /\ DOMAIN Val(e) = {"index", "option"}
                  /\ Val(e).index = Val(ua)
                  /\ Val(e).index \in 1..len_options
                  /\ Val(e).option = OptionNames[Val(ua)]

\* a YesNo handler's Confirm returns an answer
YesNoConfirm ==
    /\ question.question_type = "yesno"
    /\ \/ hpc = "read" /\ \E ch \in {"CR", "LF"} : Key(ch)
       \/ Esc2("C")
    /\ hret'.answer # None

\* C25 (as claimed): for a YesNo question the keys 1/y store Yes, 2/n store
\* No, and 3/o with the free text store Other; after a Confirm that returns an
\* answer the exported answer is the string Yes or No, or {type: Other,
\* value: text} for Other, and it is null for a question not answered.
C25_YesNoExport ==
    [][ question.question_type = "yesno" =>
            /\ \A ch \in {"1", "y"} : (hpc = "read" /\ Key(ch)) =>
                   question'.user_answer = Some(1)
            /\ \A ch \in {"2", "n"} : (hpc = "read" /\ Key(ch)) =>
                   question'.user_answer = Some(2)
            /\ \A ch \in {"3", "o"} : (hpc = "read" /\ Key(ch)) => hpc' = "other"
            /\ \A t \in HandlerTexts : HandlerOtherText(t) =>
                   question'.user_answer = Some(3)
            /\ YesNoConfirm =>
                   LET e == format_answer_for_yaml(question')
                   IN /\ e # None
                      /\ question'.user_answer = Some(1) => Val(e) = [scalar |-> "Yes"]
                      /\ question'.user_answer = Some(2) => Val(e) = [scalar |-> "No"]
                      /\ question'.user_answer = Some(3) =>
                             Val(e) = [type |-> "Other",
                                       value |-> Val(question'.other_answer)]
            /\ ~is_answered(question') => format_answer_for_yaml(question') = None ]_vars

\* an export call that wrote the file
Exported == ExportResults /\ export_ok' = Some(TRUE)

\* C26: every successful export writes a metadata block whose answered_count
\* is the number of in-memory questions for which is_answered() holds and
\* whose total_questions is the number of in-memory questions.
C26_Metadata ==
    [][ Exported =>
            /\ data'.metadata # None
            /\ Val(data'.metadata).answered_count =
                   Cardinality({i \in 1..Len(mem) :
                       \/ mem[i].q.user_answer # None
                       \/ mem[i].q.user_answers # <<>>
                       \/ mem[i].q.other_answer # None})
            /\ Val(data'.metadata).total_questions = Len(mem) ]_vars
C26_Witness ==
    /\ export_ok = Some(TRUE)
    /\ Len(mem) = 2
    /\ data.metadata # None
    /\ Val(data.metadata).answered_count = 1
    /\ Val(data.metadata).total_questions = 2

\* question i has an id and the file holds an entry with that id
HasIdRecord(i) ==
    /\ mem[i].question_id # None
    /\ \E j \in 1..Len(data.questions) : data.questions[j].id = mem[i].question_id

\* the questions that are to be written to entry j: those that carry the id
\* of the entry, and the question at list index j if it carries no id that
\* the file holds
Writers(j) ==
    {i \in 1..Len(mem) :
        \/ mem[i].question_id # None /\ data.questions[j].id = mem[i].question_id
        \/ ~HasIdRecord(i) /\ i = j}

\* entry q_data with the answer of question i written to it
Written(q_data, i) ==
    IF format_answer_for_yaml(mem[i].q) # None
    THEN [q_data EXCEPT !.answer = format_answer_for_yaml(mem[i].q)]
    ELSE q_data

\* C27 (as claimed): an export writes a question that carries an id to the
\* entry with that id, and any other question to the entry at its list
\* index; an entry that no question is written to is left as it was.
C27_Reconciliation ==
    [][ Exported =>
            /\ Len(data'.questions) = Len(data.questions)
            /\ \A j \in 1..Len(data.questions) :
                   IF Writers(j) = {}
                   THEN data'.questions[j] = data.questions[j]
                   ELSE \E i \in Writers(j) :
                            data'.questions[j] = Written(data.questions[j], i) ]_vars

\* C28: an export repeated with the in-memory questions as the export before
\* it left them changes no entry, adds none, and writes the same counts into
\* the metadata block; the timestamp may differ.
C28_Idempotent ==
    [][ (Exported /\ exported_mem = Some(mem)) =>
            /\ data'.questions = data.questions
            /\ data.metadata # None
            /\ Val(data'.metadata).answered_count = Val(data.metadata).answered_count
            /\ Val(data'.metadata).total_questions = Val(data.metadata).total_questions ]_vars
C28_Witness ==
    /\ repeated
    /\ export_ok = Some(TRUE)
    /\ now = 2
    /\ Len(mem) = 2
    /\ mem[2].question_id = Some("a")
    /\ mem[2].q.user_answers = <<1, 2>>
    /\ Len(data.questions) = 2
    /\ data.questions[1].id = Some("a")
    /\ data.questions[1].answer # None

\* C29 (as claimed): after every export, also one that follows an earlier
\* export and a change of the answers, the entry with the id of a question
\* holds exactly the answer that question has in memory at that export,
\* null when it has none.
C29_RoundTrip ==
    [][ Exported =>
            \A i \in 1..Len(mem) : \A j \in 1..Len(data.questions) :
                (mem[i].question_id # None /\ data.questions[j].id = mem[i].question_id)
                    => data'.questions[j].answer = format_answer_for_yaml(mem[i].q) ]_vars

\* C30 (as claimed): a Ctrl-C byte read by a handler, as the first byte or
\* as the second or third byte of an escape sequence, makes the handler
\* raise KeyboardInterrupt; it is never dropped.
C30_CancelShortCircuits ==
    [][ ((hpc = "read" /\ Key("ETX")) \/ Esc1("ETX") \/ Esc2("ETX")) =>
            /\ hpc' = "raised"
            /\ hret' = Raised("KeyboardInterrupt") ]_vars

\* a step of a handler that is not actionable: the answer state and the
\* selection are as before, nothing is returned or raised, the terminal is
\* back in its mode and the handler is at the top of its loop
NonActionable ==
    /\ question' = question
    /\ selected' = selected
    /\ hret' = NoReturn
    /\ term' = "cooked"
    /\ hpc' = "draw"

\* C31: ESC followed by a byte other than '[', and ESC '[' followed by a
\* byte other than 'C' and 'D', never make a handler raise or return: the
\* step changes no answer state and produces no navigation outcome, and the
\* redraw that follows puts the handler back in the key read on the same
\* question.
C31_UnknownEscapeIgnored ==
    [][ /\ \A ch2 \in HandlerKeys \ {"["} : Esc1(ch2) => NonActionable
        /\ \A ch3 \in HandlerKeys \ {"C", "D"} : Esc2(ch3) => NonActionable
        /\ (read_ch = Some("ESC") /\ Draw)
               => (hpc' = "read" /\ question' = question) ]_vars
C31_Witness ==
    /\ hpc = "read"
    /\ read_ch = Some("ESC")
    /\ question.question_type = "single"
    /\ question.user_answer = Some(1)

\* C32 (as claimed): when termios.tcsetattr fails, the failure is swallowed on
\* every exit path of a handler: a Ctrl-C (read as the first byte, or typed
\* at a line-buffered prompt) still leaves the handler as KeyboardInterrupt,
\* an int() that fails still leaves it as ValueError, and Enter, Left, Right
\* and the keys q, j and s still make the handler return.
C32_RestoreFailureSwallowed ==
    [][ termios_error =>
          /\ (Key("ETX") \/ PromptInterrupt)
                 => hret'.raised = "KeyboardInterrupt"
          /\ Key("sup2") => hret'.raised \in {"ValueError", "nothing"}
          /\ \A ch \in {"CR", "LF", "q", "j", "s"} :
                 Key(ch) => (hret'.raised = "nothing" /\ hpc' = "idle")
          /\ \A ch3 \in {"C", "D"} :
                 Esc2(ch3) => (hret'.raised = "nothing" /\ hpc' = "idle") ]_vars

\* the 'Other' sentinel (0 for Single, 3 for YesNo) and the free text of q
\* come together: neither is set without the other
SentinelWithText(q) ==
    /\ q.question_type = "single"
           => (q.user_answer = Some(0) <=> q.other_answer # None)
    /\ q.question_type = "yesno"
           => (q.user_answer = Some(3) <=> q.other_answer # None)

\* C33: a Ctrl-C read as the first byte, and a Ctrl-C typed at the 'Other'
\* prompt or at the 'Press Enter to continue' prompt, raise KeyboardInterrupt
\* with the question's answer fields exactly as they were before the key that
\* was interrupted, and never with the sentinel and the text apart.
C33_InterruptKeepsAnswerState ==
    [][ (Key("ETX") \/ PromptInterrupt)
            => /\ hret' = Raised("KeyboardInterrupt")
               /\ question' = question
               /\ SentinelWithText(question')
               /\ (hpc = "other" => rendered(question') = shown)
      ]_vars
C33_Witness ==
    /\ hpc = "raised"
    /\ hret = Raised("KeyboardInterrupt")
    /\ read_ch = Some("0")
    /\ question.question_type = "single"
    /\ question.user_answer = Some(2)
    /\ question.other_answer = None

\* C34 (as claimed): after a jump target that is out of range or not a
\* number, the error is reported and, once it is acknowledged, the target
\* prompt is shown again with the cursor unchanged: the session asks for a
\* target until a valid one is typed, and no new jump command is needed.
C34_InvalidJumpReprompts ==
    [][ JumpErrEnter => (spc' = "jump" /\ current_idx' = current_idx) ]_vars

\* C35: navigation never changes answers, and capture changes the current
\* question only.  In each handler the keys q, j and s return their command
\* with the question and the selection as they were, whatever is selected;
\* no step of a handler touches the session's list of questions.  In the
\* session the next, previous, jump, summary and quit transitions (taken,
\* declined or rejected) leave every question as it was, and the step that
\* records an answer changes the question under the cursor only.
C35_FrameEffects ==
    [][ /\ \A ch \in {"q", "j", "s"} :
               Key(ch) => /\ hret' = ReturnNav(ch)
                          /\ question' = question
                          /\ selected' = selected
        /\ hpc # "off" => questions' = questions
        /\ (spc = "dispatch" /\ ret.nav_command # None) => questions' = questions
        /\ (spc = "dispatch" /\ ret.nav_command = None /\ ret.user_answer = None)
               => questions' = questions
        /\ spc \in {"quit", "summary", "jump", "jumpErr"} => questions' = questions
        /\ \A i \in 1..total :
               i # current_idx + 1 => questions'[i] = questions[i] ]_vars
C35_Witness ==
    /\ hpc = "idle"
    /\ hret = ReturnNav("j")
    /\ question.question_type = "yesno"
    /\ question.user_answer = Some(3)
    /\ question.other_answer = Some(<<"a">>)
C35_SessionWitness ==
    /\ spc = "input"
    /\ ret.nav_command = Some("p")
    /\ current_idx = 0
    /\ questions[1].user_answer = Some(2)

\* C36 (as claimed): in every state a capture handler can leave a question in
\* ('Other' chosen with empty text included), the answer of
\* Question.get_answer_dict() equals what export._format_answer_for_yaml
\* returns for the same question.
C36_SerializersAgree ==
    get_answer_dict(question) = format_answer_for_yaml(question)

\* the entry of the file that question qu was loaded from: the one with its
\* text
LoadedFrom(qu, q_data) == kept(q_data) /\ Strip(q_data.question) = qu.question_text

\* C37 (as claimed): after a load that skipped entries and dropped the ids,
\* an export changes the `answer` key of an entry only if a question was
\* loaded from that entry, and then to the answer of that question: never
\* the answer key of a skipped entry, never to the answer of a question
\* loaded from another entry.
C37_AnswerGoesToSourceRecord ==
    [][ ExportResults =>
          \A j \in 1..Len(data.questions) :
              data'.questions[j].answer # data.questions[j].answer
                  => \E i \in 1..Len(mem) :
                         /\ LoadedFrom(mem[i], data.questions[j])
                         /\ data'.questions[j].answer
                                = format_answer_for_yaml(mem[i].q) ]_vars

\* the entries that an export writes the answer of question i to
Receivers(i) ==
    {j \in 1..Len(data.questions) :
        matched(mem, j - 1, data.questions[j]) = Some(i)}

\* C38 (as claimed): when the file has as many entries as there are questions
\* in memory, a successful export writes the answer of every question that
\* has one to exactly one entry, whatever ids the questions and the entries
\* carry and in whatever order.
C38_OneRecordPerQuestion ==
    [][ (Exported /\ Len(mem) = Len(data.questions)) =>
            \A i \in 1..Len(mem) :
                format_answer_for_yaml(mem[i].q) # None
                    => /\ Cardinality(Receivers(i)) = 1
                       /\ \A j \in Receivers(i) :
                              data'.questions[j].answer
                                  = format_answer_for_yaml(mem[i].q) ]_vars

\* the list `questions` of an export called with the handler's question alone
Captured == <<[question_id |-> None, q |-> question]>>

\* C39 (as claimed): whatever the keys read by a handler so far, the
\* answered_count that an export of the question would write into the metadata
\* block is the number of questions whose exported answer is not null: a
\* question whose exported answer is null is not counted.
C39_CountMatchesExportedAnswers ==
    Val(metadata(data, Captured, now)).answered_count
        = Cardinality({i \in 1..Len(Captured) :
                          format_answer_for_yaml(Captured[i].q) # None})

\* a step of a handler that selects option k
Selects(k) ==
    IF question.question_type = "multi" THEN k \in selected'
    ELSE question'.user_answer = Some(k)

\* option k is selected
IsSelected(k) ==
    IF question.question_type = "multi" THEN k \in selected
    ELSE question.user_answer = Some(k)

\* C40 (as claimed): for a Single or Multi question with N options, N >= 10
\* included, every option k of 1..N can be selected with the keys: whenever
\* the handler is reading a key and k is not selected, some key selects k.
C40_EveryOptionSelectable ==
    (hpc = "read" /\ question.question_type \in {"single", "multi"})
        => \A k \in 1..len_options :
               IsSelected(k) \/ ENABLED (\E ch \in ManyKeys : Key(ch) /\ Selects(k))

\* with more options than digits, no behaviour of a handler selects an option
\* beyond the ninth, whatever the keys
C40_BeyondNinthNeverSelected ==
    \A k \in 10..len_options : ~IsSelected(k)

====
